---- MODULE Spec2Model ----
(***************************************************************************)
(* A model of the osu! tracking cog (bottlecap/exts/osu.py): the poll task *)
(* with one action per stretch of code between two awaits, the track,      *)
(* track reset and untrack commands, the remote score API and the chat     *)
(* channel as environments whose answers are chosen nondeterministically.  *)
(***************************************************************************)
EXTENDS Integers, Sequences, FiniteSets, TLC

(* ------------------------------- bounds -------------------------------- *)

\* Commands (track, track reset, untrack) issued in one run.
MaxCmds == 2
\* Plays a player submits in one run; play dates are 1..MaxDate, in order.
MaxDate == 1
\* Length of the top-play lists the remote answers with in SpecPoll.
MaxTop == 2

(* ------------------------------ universes ------------------------------ *)

Users == {1, 2}
Names == {"cookiezi", "rafis"}
Channels == {10, 20}
Ranks == {"F", "S"}
PPs == {"0", "245.3"}
Dates == 1..MaxDate
\* The ways the track command is invoked: a username, in a channel.
TrackArgs == {<<"cookiezi", 10>>, <<"rafis", 20>>}

\* The date of the plays older than the run.
OldDate == 0
\* info.get('last_tracked') of a record without the key; never a play's date.
NoDate == -1
\* bot.get_channel() of an id the bot cannot see.
NoChannel == 0
\* discord.utils.get() without a match.
NoTopPlay == [date |-> NoDate, pp |-> "None"]
\* A deleted slot of the dict's entry table.
Tomb == "<dummy>"

\* The guild a channel belongs to (ctx.guild of a message in ctx.channel).
GuildOf(ch) == ch * 100

\* Store keys: AsyncJSONStorage keeps every key as str(key); poll reads the
\* key back with int().
str(u) == ToString(u)
int(k) == CHOOSE u \in Users : str(u) = k

VARIABLES
    store,      \* tracking._data: key -> record, the dict's live mapping
    entries,    \* the dict's entry table: keys in insertion order, Tomb where deleted
    remote,     \* the score API: username -> the most recent play (NoPlay: none)
    pollPc,     \* where the poll task is suspended
    it,         \* the dict items iterator of the cycle: pos, used, len
    user_id,    \* poll / alert_play local
    info,       \* poll / alert_play local: the record object read by the iterator
    infoLive,   \* info is still the very object the store holds under user_id
    play,       \* alert_play local: plays[0]
    top_plays,  \* alert_play local
    top_status, \* resp.status of the answer top_plays was read from
    channel,    \* alert_play local
    outbox,     \* the arguments of the channel.send in flight
    sent,       \* history: per (user, play date), see Send and Cleared
    prev,       \* history: per user, the date of the play alert_play was last
                \* called with, together with the record the store held;
                \* NoDate once a command changed the user's record
    call,       \* history: the alert_play call in progress
    cmds,       \* commands issued so far: the clock of time.time()
    ev          \* history: the step taken last

vars == <<store, entries, remote, pollPc, it, user_id, info, infoLive, play,
          top_plays, top_status, channel, outbox, sent, prev, call,
          cmds, ev>>

pollLocals == <<user_id, info, infoLive, it>>
alertLocals == <<play, top_plays, top_status, channel, outbox>>
history == <<sent, prev, call>>

(* ------------------------------- records ------------------------------- *)

\* Mutant: the record is stored with a date tracked last.
TrackRecordDated(ch, name, now) ==
    [channel_id |-> ch, osu_username |-> name, created_at |-> now,
     guild_id |-> ch * 100, last_tracked |-> 0]

\* The record the track command stores.
TrackRecord(ch, name, now) ==
    [channel_id |-> ch, osu_username |-> name, created_at |-> now,
     guild_id |-> GuildOf(ch), last_tracked |-> NoDate]

NoInfo == TrackRecord(NoChannel, "", 0)
NoPlay == [date |-> NoDate, rank |-> "F"]
NoIter == [pos |-> 1, used |-> 0, len |-> 0]
NoOutbox == [channel |-> NoChannel, content |-> <<>>, embed |-> <<>>]
NoCall == [touched |-> FALSE, cleared |-> FALSE]
NoSend == [n |-> 0, armed |-> TRUE, bad |-> FALSE]

(* ------------------------ the store (a Python dict) --------------------- *)

Size(st) == Cardinality(DOMAIN st)

\* self._data[str(key)] = value
dict_set(st, k, v) == [x \in DOMAIN st \cup {k} |-> IF x = k THEN v ELSE st[x]]
entries_set(st, ent, k) == IF k \in DOMAIN st THEN ent ELSE Append(ent, k)

\* Mutant: the delete leaves the record.
dict_del_none(st, k) == st

\* del self._data[str(key)]
dict_del(st, k) == [x \in DOMAIN st \ {k} |-> st[x]]
entries_del(ent, k) == [i \in 1..Len(ent) |-> IF ent[i] = k THEN Tomb ELSE ent[i]]

RECURSIVE SkipTombs(_, _)
SkipTombs(ent, i) ==
    IF i > Len(ent) THEN i
    ELSE IF ent[i] = Tomb THEN SkipTombs(ent, i + 1) ELSE i

\* One __next__ of the items iterator over the live dict.
\*   "error": the dict changed size since the iterator was made (RuntimeError)
\*   "stop":  the entry table is exhausted
\*   "extra": an entry is left after len items were given: RuntimeError on an
\*            interpreter that counts the items, one more item on one that does not
\*   "item":  the next live entry
dictiter_next(st, ent, i) ==
    LET p == SkipTombs(ent, i.pos) IN
    IF i.used # Size(st) THEN [kind |-> "error", pos |-> i.pos, key |-> Tomb]
    ELSE IF p > Len(ent) THEN [kind |-> "stop", pos |-> p, key |-> Tomb]
    ELSE IF i.len = 0 THEN [kind |-> "extra", pos |-> p + 1, key |-> ent[p]]
    ELSE [kind |-> "item", pos |-> p + 1, key |-> ent[p]]

(* --------------------------- the remote score API ----------------------- *)

\* Mutant: an answer without plays is given as a list of one play.
get_recent_plays_some(rem, name) == <<rem[name]>>

\* get_recent_plays(identity, limit=1): the most recent play, when there is one.
get_recent_plays(rem, name) ==
    IF rem[name].date = NoDate THEN <<>> ELSE <<rem[name]>>

\* The HTTP status of an answer of the remote: success, or a server error.
\* get_top_plays reads the body of the answer whatever its status.
HttpOk == 200
HttpError == 500
NoStatus == 0
Statuses == {HttpOk, HttpError}

\* The lists get_top_plays can answer with while a play of date d is alerted:
\* every entry has that date or is an older play (OldDate).
\* At most len entries.
TopEntries(d) == [date : {OldDate, d}, pp : PPs]
TopLists(d, len) == UNION {[1..n -> TopEntries(d)] : n \in 0..len}

(* ------------------------------ alert_play ------------------------------ *)

\* Mutant of the stale test: never stale.
IsStaleNever(i, p) == FALSE

\* play.date == last_tracked
IsStale(i, p) == p.date = i.last_tracked

\* Mutants: the record is stored as it was read; stored with an older date.
WithLastTrackedUnset(i, p) == i
WithLastTrackedOld(i, p) == [i EXCEPT !.last_tracked = OldDate]

\* {**info, 'last_tracked': play.date}
WithLastTracked(i, p) == [i EXCEPT !.last_tracked = p.date]

\* Mutant: the grade is compared in lower case.
IsFailedLower(p) == p.rank = "f"

\* play.rank == 'F'
IsFailed(p) == p.rank = "F"

\* Mutant: the last entry with that date.
RECURSIVE utils_get_last(_, _)
utils_get_last(tp, d) ==
    IF tp = <<>> THEN NoTopPlay
    ELSE IF tp[Len(tp)].date = d THEN tp[Len(tp)]
    ELSE utils_get_last(SubSeq(tp, 1, Len(tp) - 1), d)

\* discord.utils.get(top_plays, date=play.date): the first entry with that date.
RECURSIVE utils_get(_, _)
utils_get(tp, d) ==
    IF tp = <<>> THEN NoTopPlay
    ELSE IF Head(tp).date = d THEN Head(tp) ELSE utils_get(Tail(tp), d)

\* Mutant: every channel counts as resolved.
ChannelMissingNever(c) == FALSE

\* not channel
ChannelMissing(c) == c = NoChannel

\* The exceptions of channel.send, and the one alert_play catches
\* (SwallowedNone, a mutant: it catches none).
SendErrors == {"Forbidden", "HTTPException"}
SwallowedNone(exc) == FALSE
Swallowed(exc) == exc = "Forbidden"

\* f'<@{user_id}> **+{as_top_play.pp} PP' for a top play, '' without one.
Content(u, top) ==
    IF top # NoTopPlay THEN <<"<@", u, "> **+", top.pp, " PP">> ELSE <<>>

\* The embed: the author line and the play the description is formatted from.
Embed(i, u, p) == <<i.osu_username, u, p>>

(* ------------------------------- the loop ------------------------------- *)

InCall == {"put", "beatmap", "top", "send"}

\* The cog is loaded: its commands are registered, its poll task not cancelled.
Loaded == pollPc # "unloaded"

\* history: channel.send is invoked for user u and a play of date d.
\*   n      the sends for the pair so far (2: two or more)
\*   armed  no send for the pair yet, or a track or an effective track reset of
\*          u came after the store write the last send for the pair followed
\*   bad    a send for the pair was invoked while it was not armed
\* cleared: such a command came while the call that sends was in progress.
Send(h, u, d, cleared) ==
    [h EXCEPT ![u, d] = [n |-> IF @.n < 2 THEN @.n + 1 ELSE @.n,
                         armed |-> cleared,
                         bad |-> @.bad \/ ~@.armed]]

\* history: a track or an effective track reset of u dropped u's last_tracked.
Cleared(h, u) ==
    [p \in DOMAIN h |-> IF p[1] = u THEN [h[p] EXCEPT !.armed = TRUE] ELSE h[p]]

\* The poll task ends with an exception nothing catches.
Raise ==
    /\ pollPc' = "crashed"
    /\ user_id' = 0
    /\ info' = NoInfo
    /\ infoLive' = FALSE
    /\ it' = NoIter

\* The for statement: the next item of the dict and the recent-play request
\* for it, or the sleep at the end of the dict.
LoopHead(i) ==
    LET r == dictiter_next(store, entries, i) IN
    \/ /\ r.kind \in {"item", "extra"}
       /\ pollPc' = "recent"
       /\ user_id' = int(r.key)
       /\ info' = store[r.key]
       /\ infoLive' = TRUE
       /\ it' = [pos |-> r.pos, used |-> i.used,
                 len |-> IF i.len > 0 THEN i.len - 1 ELSE 0]
    \/ /\ r.kind = "stop"
       /\ pollPc' = "sleep"
       /\ user_id' = 0
       /\ info' = NoInfo
       /\ infoLive' = FALSE
       /\ it' = NoIter
    \/ /\ r.kind \in {"error", "extra"}
       /\ Raise

\* alert_play is over: its locals are dead.
Return ==
    /\ play' = NoPlay
    /\ top_plays' = <<>>
    /\ top_status' = NoStatus
    /\ channel' = NoChannel
    /\ outbox' = NoOutbox
    /\ call' = NoCall

\* while True: for ... in self.tracking.all().items()
PollWake ==
    /\ Loaded
    /\ pollPc = "sleep"
    /\ LoopHead([pos |-> 1, used |-> Size(store), len |-> Size(store)])
    /\ ev' = "cycle"
    /\ UNCHANGED <<store, entries, remote, alertLocals, history, cmds>>

\* get_recent_plays raises (raise_for_status, the connection).
RecentFails ==
    /\ Loaded
    /\ pollPc = "recent"
    /\ Raise
    /\ ev' = "recent_error"
    /\ UNCHANGED <<store, entries, remote, alertLocals, history, cmds>>

\* if not plays: continue
RecentEmpty ==
    /\ Loaded
    /\ pollPc = "recent"
    /\ get_recent_plays(remote, info.osu_username) = <<>>
    /\ LoopHead(it)
    /\ ev' = "no_plays"
    /\ UNCHANGED <<store, entries, remote, alertLocals, history, cmds>>

\* alert_play: the play is the one tracked last.
AlertStale ==
    /\ Loaded
    /\ pollPc = "recent"
    /\ get_recent_plays(remote, info.osu_username) # <<>>
    /\ LET p == get_recent_plays(remote, info.osu_username)[1] IN
       /\ IsStale(info, p)
       /\ prev' = [prev EXCEPT ![user_id] = IF infoLive THEN p.date ELSE NoDate]
       /\ ev' = "stale"
    /\ LoopHead(it)
    /\ UNCHANGED <<store, entries, remote, alertLocals, sent, call, cmds>>

\* alert_play: a new play; tracking.put stores the record with its date.
AlertPut ==
    /\ Loaded
    /\ pollPc = "recent"
    /\ get_recent_plays(remote, info.osu_username) # <<>>
    /\ LET p == get_recent_plays(remote, info.osu_username)[1]
           k == str(user_id) IN
       /\ ~IsStale(info, p)
       /\ store' = dict_set(store, k, WithLastTracked(info, p))
       /\ entries' = entries_set(store, entries, k)
       /\ play' = p
       /\ prev' = [prev EXCEPT ![user_id] = IF infoLive THEN p.date ELSE NoDate]
       /\ ev' = "put"
    /\ pollPc' = "put"
    /\ infoLive' = FALSE
    /\ call' = NoCall
    /\ UNCHANGED <<remote, user_id, info, it, top_plays, top_status, channel, outbox, sent,
                   cmds>>

\* if play.rank == 'F': return
AlertFailedPlay ==
    /\ Loaded
    /\ pollPc = "put"
    /\ IsFailed(play)
    /\ Return
    /\ LoopHead(it)
    /\ ev' = "failed_play"
    /\ UNCHANGED <<store, entries, remote, sent, prev, cmds>>

\* beatmap = await self.get_beatmap(play.beatmap_id)
AlertGetBeatmap ==
    /\ Loaded
    /\ pollPc = "put"
    /\ ~IsFailed(play)
    /\ pollPc' = "beatmap"
    /\ ev' = "get_beatmap"
    /\ UNCHANGED <<store, entries, remote, pollLocals, alertLocals, history,
                   cmds>>

\* get_beatmap raises: raise_for_status, or beatmaps[0] of an empty answer.
BeatmapFails(cause) ==
    /\ Loaded
    /\ pollPc = "beatmap"
    /\ Raise
    /\ Return
    /\ ev' = cause
    /\ UNCHANGED <<store, entries, remote, sent, prev, cmds>>

\* The beatmap arrived; top_plays = await self.get_top_plays(play.user_id)
AlertGetTopPlays ==
    /\ Loaded
    /\ pollPc = "beatmap"
    /\ pollPc' = "top"
    /\ ev' = "get_top_plays"
    /\ UNCHANGED <<store, entries, remote, pollLocals, alertLocals, history,
                   cmds>>

\* get_top_plays raises: the connection, or a body that is no JSON list of
\* plays (resp.json(), OsuPlay(**play)).
TopFails ==
    /\ Loaded
    /\ pollPc = "top"
    /\ Raise
    /\ Return
    /\ ev' = "top_error"
    /\ UNCHANGED <<store, entries, remote, sent, prev, cmds>>

\* if not channel: return
AlertNoChannel(c) ==
    /\ Loaded
    /\ pollPc = "top"
    /\ ChannelMissing(c)
    /\ Return
    /\ LoopHead(it)
    /\ ev' = "no_channel"
    /\ UNCHANGED <<store, entries, remote, sent, prev, cmds>>

\* await channel.send(embed=embed, content=content)
AlertSend(tp, status, c) ==
    /\ Loaded
    /\ pollPc = "top"
    /\ ~ChannelMissing(c)
    /\ top_plays' = tp
    /\ top_status' = status
    /\ channel' = c
    /\ outbox' = [channel |-> c,
                  content |-> Content(user_id, utils_get(tp, play.date)),
                  embed |-> Embed(info, user_id, play)]
    /\ sent' = Send(sent, user_id, play.date, call.cleared)
    /\ pollPc' = "send"
    /\ ev' = "send"
    /\ UNCHANGED <<store, entries, remote, pollLocals, play, prev, call, cmds>>

\* The message went out.
SendOk ==
    /\ Loaded
    /\ pollPc = "send"
    /\ Return
    /\ LoopHead(it)
    /\ ev' = "sent"
    /\ UNCHANGED <<store, entries, remote, sent, prev, cmds>>

\* channel.send raises exc: except discord.Forbidden: pass, anything else
\* leaves alert_play and poll.
SendFails(exc) ==
    /\ Loaded
    /\ pollPc = "send"
    /\ Return
    /\ IF Swallowed(exc) THEN LoopHead(it) ELSE Raise
    /\ ev' = exc
    /\ UNCHANGED <<store, entries, remote, sent, prev, cmds>>

(* ------------------------------ the commands ---------------------------- *)

\* history: a command changed the record of user u.
Touch(u, clears) ==
    /\ prev' = [prev EXCEPT ![u] = NoDate]
    /\ call' = IF u = user_id /\ pollPc \in InCall
               THEN [call EXCEPT !.touched = TRUE, !.cleared = @ \/ clears]
               ELSE call

\* track <username>: tracking.put(ctx.author.id, {...})
Track(u, name, ch) ==
    /\ Loaded
    /\ cmds < MaxCmds
    /\ store' = dict_set(store, str(u), TrackRecord(ch, name, cmds + 1))
    /\ entries' = entries_set(store, entries, str(u))
    /\ infoLive' = IF u = user_id THEN FALSE ELSE infoLive
    /\ sent' = Cleared(sent, u)
    /\ Touch(u, TRUE)
    /\ cmds' = cmds + 1
    /\ ev' = "track"
    /\ UNCHANGED <<remote, pollPc, it, user_id, info, alertLocals>>

\* Mutant: the reset record counts as created anew.
Recreated(rec) == [rec EXCEPT !.last_tracked = NoDate, !.created_at = 0]

\* del record['last_tracked']
WithoutLastTracked(rec) == [rec EXCEPT !.last_tracked = NoDate]

\* track reset: the record has last_tracked; del record['last_tracked'] on the
\* stored object itself, then tracking.put of that object.
Reset(target) ==
    /\ Loaded
    /\ cmds < MaxCmds
    /\ str(target) \in DOMAIN store
    /\ store[str(target)].last_tracked # NoDate
    /\ store' = [store EXCEPT ![str(target)] = WithoutLastTracked(@)]
    /\ info' = IF infoLive /\ target = user_id
               THEN WithoutLastTracked(info) ELSE info
    /\ sent' = Cleared(sent, target)
    /\ Touch(target, TRUE)
    /\ cmds' = cmds + 1
    /\ ev' = "reset"
    /\ UNCHANGED <<entries, remote, pollPc, it, user_id, infoLive, alertLocals>>

\* track reset: no record (if not record: return) or no last_tracked (KeyError).
ResetNothing(target) ==
    /\ Loaded
    /\ cmds < MaxCmds
    /\ \/ str(target) \notin DOMAIN store
       \/ /\ str(target) \in DOMAIN store
          /\ store[str(target)].last_tracked = NoDate
    /\ cmds' = cmds + 1
    /\ ev' = "reset_nothing"
    /\ UNCHANGED <<store, entries, remote, pollPc, pollLocals, alertLocals,
                   history>>

\* untrack: tracking.delete(ctx.author.id)
Untrack(u) ==
    /\ Loaded
    /\ cmds < MaxCmds
    /\ str(u) \in DOMAIN store
    /\ store' = dict_del(store, str(u))
    /\ entries' = entries_del(entries, str(u))
    /\ infoLive' = IF u = user_id THEN FALSE ELSE infoLive
    /\ Touch(u, FALSE)
    /\ cmds' = cmds + 1
    /\ ev' = "untrack"
    /\ UNCHANGED <<remote, pollPc, it, user_id, info, alertLocals, sent>>

\* untrack of a user without a record: except KeyError: pass
UntrackMissing(u) ==
    /\ Loaded
    /\ cmds < MaxCmds
    /\ str(u) \notin DOMAIN store
    /\ cmds' = cmds + 1
    /\ ev' = "untrack_missing"
    /\ UNCHANGED <<store, entries, remote, pollPc, pollLocals, alertLocals,
                   history>>

\* Mutant: the cancellation does not reach the task.
CancelIgnored(pc) == pc

\* track_task.cancel(): CancelledError at the await the task is suspended at;
\* nothing in poll or alert_play catches it.
Cancelled(pc) == "unloaded"

\* __unload: the poll task is cancelled where it is suspended.
Unload ==
    /\ Loaded
    /\ pollPc' = Cancelled(pollPc)
    /\ user_id' = 0
    /\ info' = NoInfo
    /\ infoLive' = FALSE
    /\ it' = NoIter
    /\ Return
    /\ ev' = "unload"
    /\ UNCHANGED <<store, entries, remote, sent, prev, cmds>>

(* ----------------------------- the environment -------------------------- *)

\* A player submits a play: the remote's most recent play gets the next date.
\* Only the poll task reads the remote: plays are not followed once it failed.
NewPlay(name, rank) ==
    /\ pollPc # "crashed"
    /\ remote[name].date < MaxDate
    /\ remote' = [remote EXCEPT ![name] =
                    [date |-> IF @ = NoPlay THEN 1 ELSE @.date + 1, rank |-> rank]]
    /\ ev' = "new_play"
    /\ UNCHANGED <<store, entries, pollPc, pollLocals, alertLocals, history,
                   cmds>>

(* ---------------------------- the specification ------------------------- *)

\* osu.json as the cog finds it: empty, or the records of an earlier run.
LoadedStores ==
    { [k \in {} |-> NoInfo],
      [k \in {str(1)} |-> TrackRecord(10, "cookiezi", 0)],
      [k \in {str(1), str(2)} |->
          IF k = str(1) THEN TrackRecord(10, "cookiezi", 0)
          ELSE TrackRecord(20, "rafis", 0)] }

\* __init__: the store is loaded, the poll task is created, the session opened.
Init ==
    /\ store \in LoadedStores
    /\ entries = IF Size(store) = 0 THEN <<>>
                 ELSE IF Size(store) = 1 THEN <<str(1)>> ELSE <<str(1), str(2)>>
    /\ remote = [n \in Names |-> NoPlay]
    /\ pollPc = "sleep"
    /\ it = NoIter
    /\ user_id = 0
    /\ info = NoInfo
    /\ infoLive = FALSE
    /\ play = NoPlay
    /\ top_plays = <<>>
    /\ top_status = NoStatus
    /\ channel = NoChannel
    /\ outbox = NoOutbox
    /\ sent = [p \in Users \X Dates |-> NoSend]
    /\ prev = [u \in Users |-> NoDate]
    /\ call = NoCall
    /\ cmds = 0
    /\ ev = "init"

Next ==
    \/ PollWake
    \/ RecentFails
    \/ RecentEmpty
    \/ AlertStale
    \/ AlertPut
    \/ AlertFailedPlay
    \/ AlertGetBeatmap
    \/ \E cause \in {"beatmap_status", "beatmap_empty"} : BeatmapFails(cause)
    \/ AlertGetTopPlays
    \/ TopFails
    \/ \E c \in {info.channel_id, NoChannel} : AlertNoChannel(c)
    \/ \E tp \in TopLists(play.date, 1), status \in Statuses,
          c \in {info.channel_id, NoChannel} : AlertSend(tp, status, c)
    \/ SendOk
    \/ \E exc \in SendErrors : SendFails(exc)
    \/ \E u \in Users, a \in TrackArgs : Track(u, a[1], a[2])
    \/ \E target \in Users : Reset(target)
    \/ \E target \in Users : ResetNothing(target)
    \/ \E u \in Users : Untrack(u)
    \/ \E u \in Users : UntrackMissing(u)
    \/ \E name \in Names, rank \in Ranks : NewPlay(name, rank)
    \/ Unload

Spec == Init /\ [][Next]_vars

\* The poll task alone, from every state of the remote, with every top-play
\* list of at most MaxTop entries: two records loaded, no command, no new play.
InitPoll ==
    /\ store = [k \in {str(1), str(2)} |->
                  IF k = str(1) THEN TrackRecord(10, "cookiezi", 0)
                  ELSE TrackRecord(20, "rafis", 0)]
    /\ entries = <<str(1), str(2)>>
    /\ remote \in [Names -> {NoPlay} \cup [date : Dates, rank : Ranks]]
    /\ pollPc = "sleep"
    /\ it = NoIter
    /\ user_id = 0
    /\ info = NoInfo
    /\ infoLive = FALSE
    /\ play = NoPlay
    /\ top_plays = <<>>
    /\ top_status = NoStatus
    /\ channel = NoChannel
    /\ outbox = NoOutbox
    /\ sent = [p \in Users \X Dates |-> NoSend]
    /\ prev = [u \in Users |-> NoDate]
    /\ call = NoCall
    /\ cmds = 0
    /\ ev = "init"

NextPoll ==
    \/ PollWake
    \/ RecentFails
    \/ RecentEmpty
    \/ AlertStale
    \/ AlertPut
    \/ AlertFailedPlay
    \/ AlertGetBeatmap
    \/ \E cause \in {"beatmap_status", "beatmap_empty"} : BeatmapFails(cause)
    \/ AlertGetTopPlays
    \/ TopFails
    \/ \E c \in {info.channel_id, NoChannel} : AlertNoChannel(c)
    \/ \E tp \in TopLists(play.date, MaxTop), status \in Statuses,
          c \in {info.channel_id, NoChannel} : AlertSend(tp, status, c)
    \/ SendOk
    \/ \E exc \in SendErrors : SendFails(exc)

SpecPoll == InitPoll /\ [][NextPoll]_vars

(* ------------------------------ the claims ------------------------------ *)

\* What the for statement does next is what the dict iterator says: the
\* recent-play request of the next user, the sleep at the end of the dict, and
\* an exception only from the iterator itself.
LoopGoesOn ==
    LET r == dictiter_next(store, entries, it) IN
    /\ (r.kind = "item") => (pollPc' = "recent" /\ user_id' = int(r.key))
    /\ (r.kind = "stop") => (pollPc' = "sleep")
    /\ (pollPc' = "crashed") => (r.kind \in {"error", "extra"})

\* The step enters alert_play: get_recent_plays answered with a play.
EntersAlert == pollPc = "recent" /\ ev' \in {"stale", "put"}

\* The step resumes alert_play where it was suspended.
Resumes == pollPc \in InCall /\ pollPc' # pollPc /\ pollPc' # "unloaded"

\* The play get_recent_plays answers with.
Fetched == remote[info.osu_username]

\* The store holds the date of the play being alerted, unless a command
\* changed the user's record since alert_play wrote it.
HoldsDate ==
    call.touched \/
        /\ str(user_id) \in DOMAIN store
        /\ store[str(user_id)].last_tracked = play.date

\* C1 as stated: channel.send is invoked at most once for every pair of a user
\* and a play date, whatever commands are interleaved.
C1_AtMostOnce == \A p \in Users \X Dates : sent[p].n <= 1

\* C1, amended: every send for a user and a play date follows a store write
\* of that date as the user's last_tracked, and a send for the same pair is
\* invoked again only when a track or an effective track reset of the user
\* came after the write the previous send followed.
C1_AtMostOncePerClear == \A p \in Users \X Dates : ~sent[p].bad

\* C1 witness: a play was alerted, the user's last_tracked was dropped by a
\* command, and the same play was alerted again.
C1_Witness == \E p \in Users \X Dates : sent[p].n = 2 /\ ~sent[p].bad

\* C2: alert_play called with a record whose last_tracked is the play's date
\* returns without a store write, without get_beatmap or get_top_plays and
\* without a send; the store is exactly as it was.
C2_StaleNoOp ==
    [][ (EntersAlert /\ info.last_tracked = Fetched.date) =>
            /\ ev' = "stale"
            /\ store' = store
            /\ entries' = entries
            /\ sent' = sent
            /\ outbox' = outbox
            /\ pollPc' \notin InCall
            /\ LoopGoesOn ]_vars

\* C2 witness: a stale play was just skipped.
C2_Witness == ev = "stale"

C4_FailedPlay ==
    [][ /\ (EntersAlert /\ Fetched.rank = "F" /\ info.last_tracked # Fetched.date) =>
              /\ ev' = "put"
              /\ store' = dict_set(store, str(user_id),
                                   [info EXCEPT !.last_tracked = Fetched.date])
              /\ play' = Fetched
        /\ (pollPc = "put" /\ play.rank = "F" /\ Resumes) =>
              /\ ev' = "failed_play"
              /\ pollPc' \notin {"beatmap", "top", "send"}
              /\ sent' = sent
              /\ store' = store
              /\ LoopGoesOn ]_vars

\* C4 witness: alert_play just returned on a failed play.
C4_Witness == ev = "failed_play"

\* C5: the write of last_tracked = play.date is complete before the beatmap
\* fetch, the top-play fetch and the send start, no later step of alert_play
\* writes the store, and when get_beatmap (an error status, an empty answer)
\* or get_top_plays fails alert_play ends in error with the record still
\* holding last_tracked = play.date.
C5_PersistFirst ==
    [][ /\ (pollPc' \in InCall) => HoldsDate'
        /\ (ev' \in {"failed_play", "get_beatmap", "beatmap_status", "beatmap_empty",
                    "get_top_plays", "top_error", "no_channel", "send", "sent",
                    "Forbidden", "HTTPException"}) =>
              (store' = store /\ entries' = entries)
        /\ (ev' \in {"beatmap_status", "beatmap_empty", "top_error"}) =>
              (pollPc' = "crashed" /\ HoldsDate) ]_vars

\* C5 witness: get_beatmap failed on an empty answer, after the write.
C5_Witness ==
    /\ ev = "beatmap_empty"
    /\ \E k \in DOMAIN store : store[k].last_tracked \in Dates

\* A remote call of the current user's turn raised.
RemoteErrors ==
    {"recent_error", "beatmap_status", "beatmap_empty", "top_error", "HTTPException"}

\* C6 as stated: when get_recent_plays or alert_play raises for a user while
\* the cycle's iteration has a later user, that user is fetched next, in the
\* same cycle.
C6_Isolation ==
    [][ LET r == dictiter_next(store, entries, it) IN
        (ev' \in RemoteErrors /\ r.kind = "item") =>
            (pollPc' = "recent" /\ user_id' = int(r.key)) ]_vars

\* C7 as stated: the poll loop has no terminal state; short of a cancellation
\* it is asleep between two cycles or busy with a user of a cycle.
C7_NoTerminalState == pollPc # "crashed"

\* C8: while a notification is being sent, its content is the mention of the
\* user and the PP of the first entry of the fetched top-play list whose date
\* is the play's date, and empty when the list has no such entry; the embed
\* of the play goes with it in both cases.
C8_Enrichment ==
    (pollPc = "send") =>
        LET m == {i \in 1..Len(top_plays) : top_plays[i].date = play.date} IN
        /\ outbox.channel = channel
        /\ outbox.embed = <<info.osu_username, user_id, play>>
        /\ IF m = {} THEN outbox.content = <<>>
           ELSE LET first == CHOOSE i \in m : \A j \in m : i <= j IN
                outbox.content = <<"<@", user_id, "> **+", top_plays[first].pp, " PP">>

\* C8 witness: a notification is being sent for a play that is in the top-play
\* list twice, with two PP values.
C8_Witness ==
    /\ pollPc = "send"
    /\ Len(top_plays) = 2
    /\ top_plays[1].date = play.date
    /\ top_plays[2].date = play.date
    /\ top_plays[1].pp # top_plays[2].pp

\* C9: when the channel of the record does not resolve for a play that is
\* neither stale nor failed, alert_play returns without an exception and
\* without a send, the loop goes on with the next user, and the store keeps
\* last_tracked = play.date.
C9_NoChannel ==
    [][ (pollPc = "top" /\ ev' \in {"no_channel", "send"} /\ channel' = NoChannel) =>
            /\ ev' = "no_channel"
            /\ sent' = sent
            /\ outbox' = NoOutbox
            /\ pollPc' \notin InCall
            /\ store' = store
            /\ HoldsDate
            /\ LoopGoesOn ]_vars

\* C9 witness: alert_play just returned for want of a channel, the record
\* holding the date of a play that is not failed.
C9_Witness ==
    /\ ev = "no_channel"
    /\ \E k \in DOMAIN store :
          /\ store[k].last_tracked \in Dates
          /\ remote[store[k].osu_username].rank # "F"

\* C10: when channel.send fails with Forbidden, alert_play returns without an
\* exception, the message is dropped and no send follows in this call, the
\* store keeps last_tracked = play.date (so the play is stale from then on),
\* and the loop goes on with the next user.
C10_Forbidden ==
    [][ (pollPc = "send" /\ ev' = "Forbidden") =>
            /\ sent' = sent
            /\ outbox' = NoOutbox
            /\ pollPc' \notin InCall
            /\ store' = store
            /\ HoldsDate
            /\ LoopGoesOn ]_vars

\* C10 witness: a send just failed with Forbidden and the loop is at the next
\* user, the record still holding a play date.
C10_Witness ==
    /\ ev = "Forbidden"
    /\ pollPc = "recent"
    /\ \E k \in DOMAIN store : store[k].last_tracked \in Dates

\* C11: when get_recent_plays answers with no play for a user, poll does not
\* call alert_play for that user, the store is unchanged, nothing is sent, and
\* the loop goes on with the next user of the cycle.
C11_NoPlays ==
    [][ (pollPc = "recent" /\ Fetched = NoPlay /\ ev' \in {"no_plays", "stale", "put"}) =>
            /\ ev' = "no_plays"
            /\ store' = store
            /\ entries' = entries
            /\ sent' = sent
            /\ prev' = prev
            /\ outbox' = outbox
            /\ pollPc' \notin InCall
            /\ LoopGoesOn ]_vars

\* C11 witness: the first of two tracked users has no play, and the loop is
\* at the second.
C11_Witness ==
    /\ ev = "no_plays"
    /\ pollPc = "recent"
    /\ user_id = 2
    /\ str(1) \in DOMAIN store
    /\ remote[store[str(1)].osu_username] = NoPlay

\* C12: the store holds at most one record per user id, under the key that
\* reads back as that id; the write of the poll loop goes to the key of the
\* user it read and changes no other record; track stores, under the invoking
\* user's key and in place of any record there, a record of the invoking
\* channel, its guild and the given username, without last_tracked.
C12_OneRecord ==
    [][ /\ \A u \in Users : Cardinality({k \in DOMAIN store' : int(k) = u}) <= 1
        /\ \A k \in DOMAIN store' : str(int(k)) = k
        /\ (ev' = "put") =>
              /\ DOMAIN store' = DOMAIN store \cup {str(user_id)}
              /\ \A k \in DOMAIN store \ {str(user_id)} : store'[k] = store[k]
        /\ (ev' = "track") =>
              \E u \in Users, ch \in Channels, name \in Names :
                  /\ DOMAIN store' = DOMAIN store \cup {str(u)}
                  /\ \A k \in DOMAIN store \ {str(u)} : store'[k] = store[k]
                  /\ store'[str(u)] =
                        [channel_id |-> ch, osu_username |-> name,
                         created_at |-> cmds', guild_id |-> GuildOf(ch),
                         last_tracked |-> NoDate] ]_vars

\* C12 witness: user 1, loaded as cookiezi and alerted of a play, issued the
\* one command of the run: a track as rafis, which replaced the record.
C12_Witness ==
    /\ ev = "track"
    /\ cmds = 1
    /\ str(1) \in DOMAIN store
    /\ store[str(1)].created_at = 1
    /\ store[str(1)].osu_username = "rafis"
    /\ store[str(1)].last_tracked = NoDate
    /\ sent[<<1, 1>>].n = 1

\* C13: a track reset of a target whose record has last_tracked removes that
\* field and leaves channel_id, osu_username, created_at and guild_id of the
\* record, and every other record, as they were; a track reset of a target
\* without a record, or with a record without last_tracked, writes nothing.
C13_ResetFrame ==
    [][ /\ (ev' = "reset") =>
              \E target \in Users :
                  LET k == str(target) IN
                  /\ k \in DOMAIN store
                  /\ store[k].last_tracked # NoDate
                  /\ DOMAIN store' = DOMAIN store
                  /\ entries' = entries
                  /\ \A x \in DOMAIN store \ {k} : store'[x] = store[x]
                  /\ store'[k].last_tracked = NoDate
                  /\ store'[k].channel_id = store[k].channel_id
                  /\ store'[k].osu_username = store[k].osu_username
                  /\ store'[k].created_at = store[k].created_at
                  /\ store'[k].guild_id = store[k].guild_id
        /\ (ev' = "reset_nothing") => (store' = store /\ entries' = entries) ]_vars

\* C13 witness: the one command of the run was a track reset, of a user that
\* had been alerted of a play; no record holds a last_tracked any more.
C13_Witness ==
    /\ ev = "reset"
    /\ cmds = 1
    /\ \A k \in DOMAIN store : store[k].last_tracked = NoDate
    /\ \E p \in Users \X Dates : sent[p].n = 1

\* C14: untrack of a user with a record deletes that record and no other;
\* untrack of a user without a record (the store's KeyError) leaves the store
\* as it was; in both cases the command runs to its end, the acknowledgement.
C14_Untrack ==
    [][ /\ (ev' = "untrack") =>
              /\ cmds' = cmds + 1
              /\ \E u \in Users :
                    /\ str(u) \in DOMAIN store
                    /\ DOMAIN store' = DOMAIN store \ {str(u)}
                    /\ \A x \in DOMAIN store' : store'[x] = store[x]
        /\ (ev' = "untrack_missing") =>
              /\ cmds' = cmds + 1
              /\ store' = store
              /\ entries' = entries
              /\ pollPc' = pollPc ]_vars

\* C14 witness: of two tracked users the first untracked, and then untracked
\* again, without a record; the record of the second is still there.
C14_Witness ==
    /\ ev = "untrack_missing"
    /\ cmds = 2
    /\ DOMAIN store = {str(2)}
    /\ store[str(2)] = TrackRecord(20, "rafis", 0)

\* C15 as stated: get_top_plays fails on an answer with a non-success status,
\* so that a send is only ever decided from top plays answered with success.
C15_TopFailsOnError == (pollPc = "send") => (top_status = HttpOk)

\* The step ends a cycle: the loop was at a user and goes to sleep, or ends.
CycleEnds == pollPc \in InCall \cup {"recent"} /\ pollPc' \in {"sleep", "crashed"}

\* The step starts the recent-play request of the next user within a cycle.
FetchesNext ==
    /\ pollPc' = "recent"
    /\ ev' \in {"no_plays", "stale", "failed_play", "no_channel", "sent", "Forbidden"}

\* C16 as stated: in a cycle every user of the dict the cycle started on is
\* fetched exactly once, one after the other: a cycle ends only when the
\* iterator has given as many users as the dict held at the start, and a
\* further fetch starts only while it has not.
C16_OncePerUser ==
    [][ /\ CycleEnds => (it.len = 0)
        /\ FetchesNext => (it.len > 0) ]_vars

\* C17 as stated: the store write of the poll loop changes only last_tracked:
\* channel_id, osu_username, created_at and guild_id of the user's record
\* right after the write are what the store held right before it.
C17_NoLostUpdate ==
    [][ (ev' = "put" /\ str(user_id) \in DOMAIN store) =>
            LET k == str(user_id) IN
            /\ store'[k].channel_id = store[k].channel_id
            /\ store'[k].osu_username = store[k].osu_username
            /\ store'[k].created_at = store[k].created_at
            /\ store'[k].guild_id = store[k].guild_id ]_vars

\* C18 as stated: after an untrack of a user the store holds no record of that
\* user until the user issues track again: a record comes into the store under
\* a key it did not hold (in the model every such key was untracked, or never
\* tracked) by a track command only.
C18_UntrackFinal ==
    [][ \A u \in Users :
            (str(u) \notin DOMAIN store /\ str(u) \in DOMAIN store') => (ev' = "track") ]_vars

\* The step closes the turn of a user without an exception of a remote call:
\* the for statement asks the iterator for the next user.
TurnOver == ev' \in {"no_plays", "stale", "failed_play", "no_channel", "sent", "Forbidden"}

\* C19 as stated: the users of a cycle are those of the store when the cycle
\* started, whatever track and untrack commands run during the cycle: after
\* the turn of a user the loop fetches the next one while users of that start
\* are left, goes to sleep when none is left, and does not fail.
C19_Snapshot ==
    [][ TurnOver =>
            /\ (it.len > 0) => (pollPc' = "recent")
            /\ (it.len = 0) => (pollPc' = "sleep") ]_vars

\* C20: the unload cancels the poll task at whatever await it is suspended:
\* the step itself fetches, writes and sends nothing and drops a send in
\* flight, and from then on, whatever plays are submitted, the store and the
\* sends stay as they are and the task stays cancelled.
C20_Cancelled ==
    [][ /\ (ev' = "unload") =>
              /\ pollPc' = "unloaded"
              /\ store' = store
              /\ entries' = entries
              /\ sent' = sent
              /\ outbox' = NoOutbox
        /\ (pollPc = "unloaded") =>
              /\ pollPc' = "unloaded"
              /\ store' = store
              /\ entries' = entries
              /\ sent' = sent
              /\ outbox' = NoOutbox ]_vars

\* C20 witness: the task was cancelled after the write of last_tracked for a
\* play of user 1 that is not failed and was never sent; another player
\* submitted a play since.
C20_Witness ==
    /\ pollPc = "unloaded"
    /\ ev = "new_play"
    /\ str(1) \in DOMAIN store
    /\ store[str(1)].last_tracked = 1
    /\ remote[store[str(1)].osu_username] = [date |-> 1, rank |-> "S"]
    /\ sent[<<1, 1>>].n = 0

====
